---- MODULE Spec2Model ----
(***************************************************************************)
(* A model of compiler.py: Lexer -> Parser -> CodeGenerator ->             *)
(* VirtualMachine.                                                         *)
(*                                                                         *)
(* Text (source code, identifier names, instruction text, printed lines)   *)
(* is a sequence of one-character strings.  A character outside ASCII is   *)
(* written by its code point name, e.g. "U+0663".                          *)
(*                                                                         *)
(* Every Python value is a record, so that any two values can be compared: *)
(*   int    [kind |-> "int",   num |-> n, den |-> 1]                       *)
(*   float  [kind |-> "float", num |-> p, den |-> q]   (p/q in lowest      *)
(*          terms, q > 0: floats are modelled as exact rationals, binary   *)
(*          rounding is not modelled)                                      *)
(*   None   [kind |-> "NoneType", num |-> 0, den |-> 1]                    *)
(*   str    [kind |-> "str", text |-> <<characters>>]                      *)
(* Python tuples and lists are TLA+ tuples; Python's 0-based index i is    *)
(* the TLA+ index i + 1.                                                   *)
(***************************************************************************)
EXTENDS Integers, Sequences, FiniteSets, TLC

VARIABLES
    code,             \* the source text handed to Lexer.tokenize
    lexer_tokens,     \* Lexer.tokens (the field of the Lexer object)
    tokens,           \* the list tokenize returned, which is Parser.tokens
    pos,              \* Parser.pos
    ast,              \* the list parse returned
    cg_instructions,  \* CodeGenerator.instructions (the field)
    instructions,     \* the list handed to VirtualMachine.execute
    stack,            \* VirtualMachine.stack
    variables,        \* VirtualMachine.variables (a function on the bound names)
    output,           \* the lines written to standard output by print
    ip,               \* number of instructions of the tape executed by execute's loop
    pc,               \* the call the driver makes next, or how the run ended
    exc,              \* the exception that ended the run ("" when none)
    calls             \* number of method calls made on the objects

vars == <<code, lexer_tokens, tokens, pos, ast, cg_instructions, instructions,
          stack, variables, output, ip, pc, exc, calls>>

----------------------------------------------------------------------------
(* Python values *)

None == [kind |-> "NoneType", num |-> 0, den |-> 1]

PyInt(n) == [kind |-> "int", num |-> n, den |-> 1]

PyStr(s) == [kind |-> "str", text |-> s]

Abs(n) == IF n < 0 THEN -n ELSE n

RECURSIVE Gcd(_, _)
Gcd(a, b) == IF b = 0 THEN a ELSE Gcd(b, a % b)

\* the float p/q, in lowest terms with a positive denominator
PyFloat(p, q) ==
    LET g == Gcd(Abs(p), Abs(q))
        s == IF q < 0 THEN -1 ELSE 1
    IN  [kind |-> "float", num |-> s * (p \div g), den |-> s * (q \div g)]

IsNumber(v) == v.kind \in {"int", "float"}

----------------------------------------------------------------------------
(* Characters and the character classes of the regular expressions *)

AsciiDigits == {"0", "1", "2", "3", "4", "5", "6", "7", "8", "9"}

\* a decimal digit outside ASCII (category Nd), which \d and \w match too:
\* ARABIC-INDIC DIGIT THREE
UnicodeDigits == {"U+0663"}

AsciiLetters ==
    {"a", "b", "c", "d", "e", "f", "g", "h", "i", "j", "k", "l", "m",
     "n", "o", "p", "q", "r", "s", "t", "u", "v", "w", "x", "y", "z",
     "A", "B", "C", "D", "E", "F", "G", "H", "I", "J", "K", "L", "M",
     "N", "O", "P", "Q", "R", "S", "T", "U", "V", "W", "X", "Y", "Z"}

\* a letter outside ASCII, which \w matches: LATIN SMALL LETTER E WITH ACUTE
UnicodeLetters == {"U+00E9"}

\* \d of a str pattern
DigitChars == AsciiDigits \cup UnicodeDigits

IsDigit(c) == c \in DigitChars

\* [a-zA-Z_]
IsIdentStart(c) == c \in AsciiLetters \cup {"_"}

\* \w of a str pattern
WordChars ==
    AsciiLetters \cup UnicodeLetters \cup AsciiDigits \cup UnicodeDigits \cup {"_"}

\* [+\-*/]
IsOperatorChar(c) == c \in {"+", "-", "*", "/"}

\* [ \t]
SkipChars == {" ", "\t"}

IsSkip(c) == c \in SkipChars

\* the decimal value of a digit character, as int() reads it
DigitVal(c) ==
    CASE c = "0" -> 0 [] c = "1" -> 1 [] c = "2" -> 2 [] c = "3" -> 3
      [] c = "4" -> 4 [] c = "5" -> 5 [] c = "6" -> 6 [] c = "7" -> 7
      [] c = "8" -> 8 [] c = "9" -> 9 [] c = "U+0663" -> 3

\* the digit character str() writes for 0..9
DigitChar(d) ==
    CASE d = 0 -> "0" [] d = 1 -> "1" [] d = 2 -> "2" [] d = 3 -> "3"
      [] d = 4 -> "4" [] d = 5 -> "5" [] d = 6 -> "6" [] d = 7 -> "7"
      [] d = 8 -> "8" [] d = 9 -> "9"

\* int(text) for a text of digits
RECURSIVE ParseInt(_)
ParseInt(text) ==
    IF text = <<>> THEN 0
    ELSE 10 * ParseInt(SubSeq(text, 1, Len(text) - 1)) + DigitVal(text[Len(text)])

\* str(n) for n >= 0
RECURSIVE NatStr(_)
NatStr(n) ==
    IF n < 10 THEN <<DigitChar(n)>> ELSE NatStr(n \div 10) \o <<DigitChar(n % 10)>>

\* str(n) for an int n
IntStr(n) == IF n < 0 THEN <<"-">> \o NatStr(-n) ELSE NatStr(n)

\* the end (exclusive, 0-based) of the longest run of characters of S from
\* i on: what a greedy + or * over the class S consumes
RECURSIVE RunEnd(_, _, _)
RunEnd(text, i, S) ==
    IF i < Len(text) /\ text[i + 1] \in S THEN RunEnd(text, i + 1, S) ELSE i

----------------------------------------------------------------------------
(* Lexer *)

\* what a call leaves behind: the object's token list, the value returned
\* (meaningful when exc = ""), and the exception raised
LexResult(toks, e) == [tokens |-> toks, exc |-> e]

\* the loop over re.finditer(token_regex, code), from position i (0-based),
\* with toks the content of self.tokens so far
RECURSIVE scan(_, _, _)
scan(text, i, toks) ==
    IF i >= Len(text)
    THEN LexResult(Append(toks, <<"EOF", None>>), "")
    ELSE LET c == text[i + 1] IN
         IF IsDigit(c)
         THEN LET j == RunEnd(text, i, DigitChars) IN
              scan(text, j, Append(toks, <<"NUMBER", PyInt(ParseInt(SubSeq(text, i + 1, j)))>>))
         ELSE IF IsIdentStart(c)
         THEN LET j == RunEnd(text, i, WordChars) IN
              scan(text, j, Append(toks, <<"IDENTIFIER", PyStr(SubSeq(text, i + 1, j))>>))
         ELSE IF c = "="
         THEN scan(text, i + 1, Append(toks, <<"ASSIGN", PyStr(<<c>>)>>))
         ELSE IF c = ";"
         THEN scan(text, i + 1, Append(toks, <<"SEMICOLON", PyStr(<<c>>)>>))
         ELSE IF IsOperatorChar(c)
         THEN scan(text, i + 1, Append(toks, <<"OPERATOR", PyStr(<<c>>)>>))
         ELSE IF c = "("
         THEN scan(text, i + 1, Append(toks, <<"LPAREN", PyStr(<<c>>)>>))
         ELSE IF c = ")"
         THEN scan(text, i + 1, Append(toks, <<"RPAREN", PyStr(<<c>>)>>))
         ELSE IF IsSkip(c)
         THEN scan(text, RunEnd(text, i, SkipChars), toks)
         ELSE IF c # "\n"
         THEN LexResult(toks, "SyntaxError")
         ELSE scan(text, i + 1, toks)

\* Lexer.tokenize(code) on a Lexer whose self.tokens is self_tokens
tokenize(self_tokens, text) == scan(text, 0, self_tokens)

----------------------------------------------------------------------------
(* Parser.  A method's outcome is a record: exc is the exception raised    *)
(* ("" when the method returned), pos is Parser.pos when it ended, val is  *)
(* the value returned.                                                     *)

Ok(p, v) == [exc |-> "", pos |-> p, val |-> v]

Fail(e, p) == [exc |-> e, pos |-> p, val |-> <<>>]

\* self.tokens[self.pos] is defined for 0 <= pos < len(tokens); beyond it
\* the list index raises IndexError
InRange(toks, p) == p < Len(toks)

\* Parser.peek
peek(toks, p) == toks[p + 1]

\* Parser.advance: the token returned; the caller moves pos to p + 1
advance(toks, p) == toks[p + 1]

\* expect consuming the token before it compares its kind
expect_advances_first(toks, p, token_type) ==
    IF ~InRange(toks, p) THEN Fail("IndexError", p)
    ELSE IF advance(toks, p)[1] = token_type THEN Ok(p + 1, advance(toks, p))
    ELSE Fail("SyntaxError", p + 1)

\* Parser.expect
expect(toks, p, token_type) ==
    IF ~InRange(toks, p) THEN Fail("IndexError", p)
    ELSE IF peek(toks, p)[1] = token_type THEN Ok(p + 1, advance(toks, p))
    ELSE Fail("SyntaxError", p)

RECURSIVE expression(_, _), expression_loop(_, _, _), term(_, _)

\* term building a node of its own for a parenthesised expression
term_keeps_parentheses(toks, p) ==
    IF ~InRange(toks, p) THEN Fail("IndexError", p)
    ELSE LET token_type == peek(toks, p)[1] IN
         IF token_type = "NUMBER" THEN Ok(p + 1, advance(toks, p))
         ELSE IF token_type = "IDENTIFIER" THEN Ok(p + 1, advance(toks, p))
         ELSE IF token_type = "LPAREN"
         THEN LET expr == expression(toks, p + 1) IN
              IF expr.exc # "" THEN expr
              ELSE LET close == expect(toks, expr.pos, "RPAREN") IN
                   IF close.exc # "" THEN close
                   ELSE Ok(close.pos, <<"group", expr.val>>)
         ELSE Fail("SyntaxError", p)

\* Parser.term
term(toks, p) ==
    IF ~InRange(toks, p) THEN Fail("IndexError", p)
    ELSE LET token_type == peek(toks, p)[1] IN
         IF token_type = "NUMBER" THEN Ok(p + 1, advance(toks, p))
         ELSE IF token_type = "IDENTIFIER" THEN Ok(p + 1, advance(toks, p))
         ELSE IF token_type = "LPAREN"
         THEN LET expr == expression(toks, p + 1) IN
              IF expr.exc # "" THEN expr
              ELSE LET close == expect(toks, expr.pos, "RPAREN") IN
                   IF close.exc # "" THEN close ELSE Ok(close.pos, expr.val)
         ELSE Fail("SyntaxError", p)

\* the loop of expression parsing its right operand as a whole expression,
\* which groups to the right
expression_loop_right(toks, p, left) ==
    IF ~InRange(toks, p) THEN Fail("IndexError", p)
    ELSE IF peek(toks, p)[1] = "OPERATOR"
    THEN LET op == advance(toks, p)[2]
             right == expression(toks, p + 1)
         IN  IF right.exc # "" THEN right
             ELSE Ok(right.pos, <<"bin_op", op, left, right.val>>)
    ELSE Ok(p, left)

\* the while loop of Parser.expression, with left the tree folded so far
expression_loop(toks, p, left) ==
    IF ~InRange(toks, p) THEN Fail("IndexError", p)
    ELSE IF peek(toks, p)[1] = "OPERATOR"
    THEN LET op == advance(toks, p)[2]
             right == term(toks, p + 1)
         IN  IF right.exc # "" THEN right
             ELSE expression_loop(toks, right.pos, <<"bin_op", op, left, right.val>>)
    ELSE Ok(p, left)

\* Parser.expression
expression(toks, p) ==
    LET left == term(toks, p) IN
    IF left.exc # "" THEN left ELSE expression_loop(toks, left.pos, left.val)

\* Parser.variable_declaration
variable_declaration(toks, p) ==
    LET kw == expect(toks, p, "IDENTIFIER") IN
    IF kw.exc # "" THEN kw ELSE
    LET var_name == expect(toks, kw.pos, "IDENTIFIER") IN
    IF var_name.exc # "" THEN var_name ELSE
    LET assign == expect(toks, var_name.pos, "ASSIGN") IN
    IF assign.exc # "" THEN assign ELSE
    LET value == expression(toks, assign.pos) IN
    IF value.exc # "" THEN value ELSE
    LET semi == expect(toks, value.pos, "SEMICOLON") IN
    IF semi.exc # "" THEN semi
    ELSE Ok(semi.pos, <<"var_decl", var_name.val[2], value.val>>)

\* print_statement taking the semicolon when there is one and going on
\* without it otherwise
print_statement_optional_semicolon(toks, p) ==
    LET kw == expect(toks, p, "IDENTIFIER") IN
    IF kw.exc # "" THEN kw ELSE
    LET value == expression(toks, kw.pos) IN
    IF value.exc # "" THEN value ELSE
    LET semi == expect(toks, value.pos, "SEMICOLON") IN
    IF semi.exc # "" THEN Ok(value.pos, <<"print", value.val>>)
    ELSE Ok(semi.pos, <<"print", value.val>>)

\* Parser.print_statement
print_statement(toks, p) ==
    LET kw == expect(toks, p, "IDENTIFIER") IN
    IF kw.exc # "" THEN kw ELSE
    LET value == expression(toks, kw.pos) IN
    IF value.exc # "" THEN value ELSE
    LET semi == expect(toks, value.pos, "SEMICOLON") IN
    IF semi.exc # "" THEN semi
    ELSE Ok(semi.pos, <<"print", value.val>>)

\* the texts statement compares the token's value with
KwVar == PyStr(<<"v", "a", "r">>)

KwPrint == PyStr(<<"p", "r", "i", "n", "t">>)

\* Parser.statement
statement(toks, p) ==
    IF ~InRange(toks, p) THEN Fail("IndexError", p)
    ELSE LET token_type == peek(toks, p)[1]
             value == peek(toks, p)[2]
         IN  IF token_type = "IDENTIFIER" /\ value = KwVar
             THEN variable_declaration(toks, p)
             ELSE IF token_type = "IDENTIFIER" /\ value = KwPrint
             THEN print_statement(toks, p)
             ELSE Fail("SyntaxError", p)

\* the while loop of Parser.parse, with statements the list built so far
RECURSIVE parse_loop(_, _, _)
parse_loop(toks, p, statements) ==
    IF ~InRange(toks, p) THEN Fail("IndexError", p)
    ELSE IF peek(toks, p)[1] # "EOF"
    THEN LET st == statement(toks, p) IN
         IF st.exc # "" THEN st ELSE parse_loop(toks, st.pos, Append(statements, st.val))
    ELSE Ok(p, statements)

\* Parser(tokens).parse(): pos starts at 0 (Parser.__init__)
parse(toks) == parse_loop(toks, 0, <<>>)

----------------------------------------------------------------------------
(* Text formatting: str(v), which the f-strings of the code generator and  *)
(* print both apply.                                                       *)

\* the first n digits of the decimal fraction r/q (0 <= r < q), stopping
\* when the fraction ends
RECURSIVE FracDigits(_, _, _)
FracDigits(r, q, n) ==
    IF r = 0 \/ n = 0 THEN <<>>
    ELSE <<DigitChar((10 * r) \div q)>> \o FracDigits((10 * r) % q, q, n - 1)

\* repr of a float p/q: the integer part, a point, and the fraction digits
\* ("0" when there are none).  A fraction that does not end is cut after 16
\* digits; Python prints the shortest text that reads back as the same
\* double, which can differ in the last digit.
FloatStr(p, q) ==
    LET a == Abs(p)
        frac == FracDigits(a % q, q, 16)
    IN  (IF p < 0 THEN <<"-">> ELSE <<>>) \o NatStr(a \div q) \o <<".">>
        \o (IF frac = <<>> THEN <<"0">> ELSE frac)

\* str(v)
PyFormat(v) ==
    CASE v.kind = "str" -> v.text
      [] v.kind = "int" -> IntStr(v.num)
      [] v.kind = "float" -> FloatStr(v.num, v.den)
      [] v.kind = "NoneType" -> <<"N", "o", "n", "e">>

----------------------------------------------------------------------------
(* CodeGenerator.  An instruction is its text.                             *)

ALLOC == <<"A", "L", "L", "O", "C">>

PUSH == <<"P", "U", "S", "H">>

LOAD == <<"L", "O", "A", "D">>

STORE == <<"S", "T", "O", "R", "E">>

OP == <<"O", "P">>

PRINT == <<"P", "R", "I", "N", "T">>

\* the f-string written without the space between opcode and operand
Instr_no_space(opcode, operand) == opcode \o PyFormat(operand)

\* f"{opcode} {operand}"
Instr(opcode, operand) == opcode \o <<" ">> \o PyFormat(operand)

\* CodeGenerator.generate_expression: the instructions it appends.  The
\* parser builds expressions from tuples only; a tuple with another tag
\* falls through both elif and appends nothing.
RECURSIVE generate_expression(_)

\* generate_expression visiting the right operand before the left
generate_expression_operands_swapped(expr) ==
    IF expr[1] = "bin_op"
    THEN generate_expression(expr[4]) \o generate_expression(expr[3])
         \o <<Instr(OP, expr[2])>>
    ELSE IF expr[1] = "NUMBER" THEN <<Instr(PUSH, expr[2])>>
    ELSE IF expr[1] = "IDENTIFIER" THEN <<Instr(LOAD, expr[2])>>
    ELSE <<>>

\* generate_expression forgetting the left operand of an operator
generate_expression_left_forgotten(expr) ==
    IF expr[1] = "bin_op"
    THEN generate_expression(expr[4]) \o <<Instr(OP, expr[2])>>
    ELSE IF expr[1] = "NUMBER" THEN <<Instr(PUSH, expr[2])>>
    ELSE IF expr[1] = "IDENTIFIER" THEN <<Instr(LOAD, expr[2])>>
    ELSE <<>>

generate_expression(expr) ==
    IF expr[1] = "bin_op"
    THEN generate_expression(expr[3]) \o generate_expression(expr[4])
         \o <<Instr(OP, expr[2])>>
    ELSE IF expr[1] = "NUMBER" THEN <<Instr(PUSH, expr[2])>>
    ELSE IF expr[1] = "IDENTIFIER" THEN <<Instr(LOAD, expr[2])>>
    ELSE <<>>

\* what generate leaves behind: the object's instruction list (also the
\* value returned when exc = "") and the exception raised
GenResult(ins, e) == [instructions |-> ins, exc |-> e]

\* generate_statement with the STORE of a declaration forgotten
generate_statement_no_store(ins, st) ==
    IF st[1] = "var_decl"
    THEN GenResult(ins \o <<Instr(ALLOC, st[2])>> \o generate_expression(st[3]), "")
    ELSE IF st[1] = "print"
    THEN GenResult(ins \o generate_expression(st[2]) \o <<PRINT>>, "")
    ELSE GenResult(ins, "RuntimeError")

\* CodeGenerator.generate_statement, with ins the content of
\* self.instructions before the call
generate_statement(ins, st) ==
    IF st[1] = "var_decl"
    THEN GenResult(ins \o <<Instr(ALLOC, st[2])>> \o generate_expression(st[3])
                       \o <<Instr(STORE, st[2])>>, "")
    ELSE IF st[1] = "print"
    THEN GenResult(ins \o generate_expression(st[2]) \o <<PRINT>>, "")
    ELSE GenResult(ins, "RuntimeError")

\* the for loop of CodeGenerator.generate from statement i (0-based) on
RECURSIVE generate_loop(_, _, _)
generate_loop(ins, tree, i) ==
    IF i >= Len(tree) THEN GenResult(ins, "")
    ELSE LET r == generate_statement(ins, tree[i + 1]) IN
         IF r.exc # "" THEN r ELSE generate_loop(r.instructions, tree, i + 1)

\* CodeGenerator.generate(ast) on a generator whose self.instructions is
\* self_instructions
generate(self_instructions, tree) == generate_loop(self_instructions, tree, 0)

----------------------------------------------------------------------------
(* VirtualMachine *)

\* the characters str.split() separates at in the model's alphabet
Whitespace == {" ", "\t", "\n", "\r"}

\* the end (exclusive, 0-based) of the run of characters outside S from i on
RECURSIVE WordEnd(_, _, _)
WordEnd(text, i, S) ==
    IF i < Len(text) /\ text[i + 1] \notin S THEN WordEnd(text, i + 1, S) ELSE i

\* instruction.split(): the maximal runs of non-whitespace, from i on
RECURSIVE SplitFrom(_, _)
SplitFrom(text, i) ==
    IF i >= Len(text) THEN <<>>
    ELSE IF text[i + 1] \in Whitespace THEN SplitFrom(text, i + 1)
    ELSE LET j == WordEnd(text, i, Whitespace) IN
         <<SubSeq(text, i + 1, j)>> \o SplitFrom(text, j)

Split(text) == SplitFrom(text, 0)

\* whether int(text) accepts the text: digits, after an optional sign
IsIntText(text) ==
    LET body == IF text # <<>> /\ text[1] \in {"-", "+"} THEN Tail(text) ELSE text
    IN  body # <<>> /\ \A k \in 1..Len(body) : IsDigit(body[k])

\* int(text) of such a text
IntOfText(text) ==
    IF text[1] = "-" THEN -ParseInt(Tail(text))
    ELSE IF text[1] = "+" THEN ParseInt(Tail(text))
    ELSE ParseInt(text)

\* the empty dict of VirtualMachine.__init__
EmptyDict == [n \in {} |-> None]

\* self.variables.get(var_name): None for a name that is not bound
DictGet(d, name) == IF name \in DOMAIN d THEN d[name] ELSE None

\* self.variables[var_name] = value
DictSet(d, name, value) ==
    [n \in DOMAIN d \cup {name} |-> IF n = name THEN value ELSE d[n]]

\* ALLOC with the value of a name that is already bound kept
alloc_keeps_bound(d, name) == IF name \in DOMAIN d THEN d ELSE DictSet(d, name, None)

\* the branch op == "ALLOC": self.variables[var_name] = None
alloc(d, name) == DictSet(d, name, None)

\* the machine after an instruction: exc is the exception it raised, "" if none
VM(st, vs, out, e) == [stack |-> st, variables |-> vs, output |-> out, exc |-> e]

Top(st) == st[Len(st)]

Pop(st) == SubSeq(st, 1, Len(st) - 1)

\* left + right, left - right, left * right of two numbers: an int for two
\* ints, a float as soon as one is a float
Arith(operator, left, right) ==
    LET p == CASE operator = "+" -> left.num * right.den + right.num * left.den
               [] operator = "-" -> left.num * right.den - right.num * left.den
               [] operator = "*" -> left.num * right.num
        q == left.den * right.den
    IN  IF left.kind = "int" /\ right.kind = "int" THEN PyInt(p) ELSE PyFloat(p, q)

\* division that floors the quotient of two ints, as // does
floor_div(left, right) ==
    IF left.kind = "int" /\ right.kind = "int"
    THEN PyInt(left.num \div right.num)
    ELSE PyFloat(left.num * right.den, left.den * right.num)

\* left / right: true division, a float also for two ints
TrueDiv(left, right) == PyFloat(left.num * right.den, left.den * right.num)

\* the branch op == "OP", after both operands are popped
apply_operator(operator, left, right, m) ==
    IF operator \in {<<"+">>, <<"-">>, <<"*">>}
    THEN IF ~IsNumber(left) \/ ~IsNumber(right)
         THEN VM(m.stack, m.variables, m.output, "TypeError")
         ELSE VM(Append(m.stack, Arith(operator[1], left, right)),
                 m.variables, m.output, "")
    ELSE IF operator = <<"/">>
    THEN IF ~IsNumber(left) \/ ~IsNumber(right)
         THEN VM(m.stack, m.variables, m.output, "TypeError")
         ELSE IF right.num = 0
         THEN VM(m.stack, m.variables, m.output, "ZeroDivisionError")
         ELSE VM(Append(m.stack, TrueDiv(left, right)), m.variables, m.output, "")
    ELSE VM(m.stack, m.variables, m.output, "")

\* the branches of VirtualMachine.execute_instruction on the machine m,
\* with parts the instruction split at whitespace
dispatch(m, parts) ==
    LET raise(e) == VM(m.stack, m.variables, m.output, e) IN
    IF parts = <<>> THEN raise("IndexError")
    ELSE LET op == parts[1] IN
    IF op = ALLOC
    THEN IF Len(parts) < 2 THEN raise("IndexError")
         ELSE VM(m.stack, alloc(m.variables, parts[2]), m.output, "")
    ELSE IF op = PUSH
    THEN IF Len(parts) < 2 THEN raise("IndexError")
         ELSE IF ~IsIntText(parts[2]) THEN raise("ValueError")
         ELSE VM(Append(m.stack, PyInt(IntOfText(parts[2]))), m.variables, m.output, "")
    ELSE IF op = LOAD
    THEN IF Len(parts) < 2 THEN raise("IndexError")
         ELSE VM(Append(m.stack, DictGet(m.variables, parts[2])), m.variables, m.output, "")
    ELSE IF op = STORE
    THEN IF Len(parts) < 2 \/ m.stack = <<>> THEN raise("IndexError")
         ELSE VM(Pop(m.stack), DictSet(m.variables, parts[2], Top(m.stack)), m.output, "")
    ELSE IF op = OP
    THEN IF Len(parts) < 2 \/ m.stack = <<>> THEN raise("IndexError")
         ELSE IF Len(m.stack) < 2
         THEN VM(Pop(m.stack), m.variables, m.output, "IndexError")
         ELSE apply_operator(parts[2], Top(Pop(m.stack)), Top(m.stack),
                             VM(Pop(Pop(m.stack)), m.variables, m.output, ""))
    ELSE IF op = PRINT
    THEN IF m.stack = <<>> THEN raise("IndexError")
         ELSE VM(Pop(m.stack), m.variables, Append(m.output, PyFormat(Top(m.stack))), "")
    ELSE VM(m.stack, m.variables, m.output, "")

\* the instruction pops more values than the stack holds
Underflows(m, parts) ==
    /\ parts # <<>>
    /\ \/ parts[1] \in {STORE, PRINT} /\ m.stack = <<>>
       \/ parts[1] = OP /\ Len(m.stack) < 2

\* execute_instruction skipping an instruction whose operands are missing,
\* as a pop guarded by "if self.stack" does
execute_instruction_guarded_pop(m, instruction) ==
    IF Underflows(m, Split(instruction))
    THEN VM(m.stack, m.variables, m.output, "")
    ELSE dispatch(m, Split(instruction))

\* execute_instruction with STORE refusing a name that no ALLOC bound
execute_instruction_store_needs_alloc(m, instruction) ==
    LET parts == Split(instruction) IN
    IF Len(parts) >= 2 /\ parts[1] = STORE /\ parts[2] \notin DOMAIN m.variables
    THEN VM(m.stack, m.variables, m.output, "NameError")
    ELSE dispatch(m, parts)

\* VirtualMachine.execute_instruction on the machine m
execute_instruction(m, instruction) == dispatch(m, Split(instruction))

\* the for loop of VirtualMachine.execute from instruction i (0-based) on:
\* the machine when the loop ends or an instruction raises
RECURSIVE execute_loop(_, _, _)
execute_loop(m, tape, i) ==
    IF i >= Len(tape) THEN m
    ELSE LET r == execute_instruction(m, tape[i + 1]) IN
         IF r.exc # "" THEN r ELSE execute_loop(r, tape, i + 1)

\* VirtualMachine.execute(instructions) on the machine m
execute(m, tape) == execute_loop(m, tape, 0)

----------------------------------------------------------------------------
(* Inputs *)

\* longest raw source text, in characters
MaxSrcLen == 3

\* most statements of a program
MaxStmts == 3

\* most lexemes of the expression of a one-statement program
MaxExprToks == 5

\* longest instruction tape handed to execute directly
MaxInstrs == 3

\* longest text or tape handed to an object that is called again, and the
\* number of calls made on the objects
MaxReuseLen == 2

MaxCalls == 2

\* all sequences over S of length at most n
SeqsUpTo(S, n) == UNION {[1..k -> S] : k \in 0..n}

\* the concatenation of the texts of a sequence, each followed by sep
RECURSIVE Join(_, _)
Join(texts, sep) ==
    IF texts = <<>> THEN <<>> ELSE Head(texts) \o sep \o Join(Tail(texts), sep)

\* characters of the raw source texts: one or two of every class the
\* lexer's rules tell apart, and characters no rule but MISMATCH matches
RawChars ==
    {"2", "x", "_", "=", ";", "+", "(", ")", " ", "\t", "\n", "#", "$",
     "U+0663", "U+00E9"}

RawSources == SeqsUpTo(RawChars, MaxSrcLen)

W_var == <<"v", "a", "r">>

W_print == <<"p", "r", "i", "n", "t">>

\* the statements programs are built from
StmtTexts ==
    { W_var \o <<" ", "x", " ", "=", " ", "1", "0", ";">>,
      W_var \o <<" ", "x", " ", "=", " ", "2", "0", ";">>,
      W_var \o <<" ", "x", " ", "=", " ", "x", ";">>,
      W_print \o <<" ", "x", ";">>,
      W_print \o <<" ", "x">>,
      W_print \o <<" ", "2", "+", "3", "*", "4", ";">>,
      W_print \o <<"(", "4", "/", "2", ")", ";">>,
      W_print \o <<"(", "5", "/", "2", ")", ";">>,
      W_print \o <<"(", "5", "-", "2", ")", ";">>,
      W_print \o <<"(", "x", "+", "2", ")", ";">> }

\* programs: up to MaxStmts statements, one per line
ProgramSources == {Join(p, <<"\n">>) : p \in SeqsUpTo(StmtTexts, MaxStmts)}

\* lexemes of the expressions of the one-statement programs
ExprLexemes == {<<"2">>, <<"3">>, <<"4">>, <<"+">>, <<"*">>, <<"(">>, <<")">>}

\* print followed by any sequence of up to MaxExprToks lexemes and a semicolon
ExprSources ==
    {W_print \o <<" ">> \o Join(e, <<" ">>) \o <<";">> :
        e \in SeqsUpTo(ExprLexemes, MaxExprToks)}

\* the instructions of the tapes handed to execute directly
TapeInstrs ==
    { Instr(ALLOC, PyStr(<<"x">>)), Instr(LOAD, PyStr(<<"x">>)),
      Instr(STORE, PyStr(<<"x">>)),
      Instr(PUSH, PyInt(0)), Instr(PUSH, PyInt(2)), Instr(PUSH, PyInt(4)),
      Instr(OP, PyStr(<<"+">>)), Instr(OP, PyStr(<<"-">>)),
      Instr(OP, PyStr(<<"*">>)), Instr(OP, PyStr(<<"/">>)),
      PRINT }

Tapes == SeqsUpTo(TapeInstrs, MaxInstrs)

\* the inputs of the calls made on objects that are called again
ReuseChars == {"2", "x", ";", "#"}

ReuseSources == SeqsUpTo(ReuseChars, MaxReuseLen)

ReuseTapes == SeqsUpTo(TapeInstrs, MaxReuseLen)

\* the AST the parser builds from a source text
AstOf(text) == parse(tokenize(<<>>, text).tokens).val

\* the statements of StmtTexts that parse
ReuseStmts == {t \in StmtTexts : parse(tokenize(<<>>, t).tokens).exc = ""}

----------------------------------------------------------------------------
(* The pipeline of the driver: tokenize, parse, generate, execute, each on  *)
(* a freshly constructed object.                                           *)

\* the objects as their constructors leave them, before any call
Fresh ==
    /\ lexer_tokens = <<>>
    /\ tokens = <<>>
    /\ pos = 0
    /\ ast = <<>>
    /\ cg_instructions = <<>>
    /\ stack = <<>>
    /\ variables = EmptyDict
    /\ output = <<>>
    /\ ip = 0
    /\ exc = ""
    /\ calls = 0

Init ==
    /\ code \in ProgramSources
    /\ instructions = <<>>
    /\ pc = "tokenize"
    /\ Fresh

\* tokens = lexer.tokenize(code)
Tokenize ==
    /\ pc = "tokenize"
    /\ LET r == tokenize(lexer_tokens, code) IN
       /\ lexer_tokens' = r.tokens
       /\ exc' = r.exc
       /\ IF r.exc = ""
          THEN tokens' = r.tokens /\ pc' = "parse"
          ELSE tokens' = tokens /\ pc' = "tokenize_raised"
    /\ calls' = calls + 1
    /\ UNCHANGED <<code, pos, ast, cg_instructions, instructions, stack,
                   variables, output, ip>>

\* ast = Parser(tokens).parse()
Parse ==
    /\ pc = "parse"
    /\ LET r == parse(tokens) IN
       /\ pos' = r.pos
       /\ exc' = r.exc
       /\ IF r.exc = ""
          THEN ast' = r.val /\ pc' = "generate"
          ELSE ast' = ast /\ pc' = "parse_raised"
    /\ calls' = calls + 1
    /\ UNCHANGED <<code, lexer_tokens, tokens, cg_instructions, instructions,
                   stack, variables, output, ip>>

\* instructions = codegen.generate(ast)
Generate ==
    /\ pc = "generate"
    /\ LET r == generate(cg_instructions, ast) IN
       /\ cg_instructions' = r.instructions
       /\ exc' = r.exc
       /\ IF r.exc = ""
          THEN instructions' = r.instructions /\ pc' = "execute"
          ELSE instructions' = instructions /\ pc' = "generate_raised"
    /\ calls' = calls + 1
    /\ UNCHANGED <<code, lexer_tokens, tokens, pos, ast, stack, variables,
                   output, ip>>

\* vm.execute(instructions): the call enters the for loop
ExecuteCall ==
    /\ pc = "execute"
    /\ pc' = "running"
    /\ ip' = 0
    /\ calls' = calls + 1
    /\ UNCHANGED <<code, lexer_tokens, tokens, pos, ast, cg_instructions,
                   instructions, stack, variables, output, exc>>

\* the for loop catching the exception of an instruction and going on
\* with the next
ExecuteStep_goes_on ==
    /\ pc = "running"
    /\ ip < Len(instructions)
    /\ LET r == execute_instruction(VM(stack, variables, output, ""),
                                    instructions[ip + 1]) IN
       /\ stack' = r.stack
       /\ variables' = r.variables
       /\ output' = r.output
       /\ exc' = r.exc
       /\ pc' = "running"
    /\ ip' = ip + 1
    /\ UNCHANGED <<code, lexer_tokens, tokens, pos, ast, cg_instructions,
                   instructions, calls>>

\* one iteration of the for loop: self.execute_instruction(instruction)
ExecuteStep ==
    /\ pc = "running"
    /\ ip < Len(instructions)
    /\ LET r == execute_instruction(VM(stack, variables, output, ""),
                                    instructions[ip + 1]) IN
       /\ stack' = r.stack
       /\ variables' = r.variables
       /\ output' = r.output
       /\ exc' = r.exc
       /\ pc' = IF r.exc = "" THEN "running" ELSE "execute_raised"
    /\ ip' = ip + 1
    /\ UNCHANGED <<code, lexer_tokens, tokens, pos, ast, cg_instructions,
                   instructions, calls>>

\* the for loop ending one instruction early
ExecuteReturn_one_early ==
    /\ pc = "running"
    /\ ip + 1 >= Len(instructions)
    /\ pc' = "done"
    /\ UNCHANGED <<code, lexer_tokens, tokens, pos, ast, cg_instructions,
                   instructions, stack, variables, output, ip, exc, calls>>

\* the for loop is exhausted: execute returns
ExecuteReturn ==
    /\ pc = "running"
    /\ ip = Len(instructions)
    /\ pc' = "done"
    /\ UNCHANGED <<code, lexer_tokens, tokens, pos, ast, cg_instructions,
                   instructions, stack, variables, output, ip, exc, calls>>

Next ==
    \/ Tokenize
    \/ Parse
    \/ Generate
    \/ ExecuteCall
    \/ ExecuteStep
    \/ ExecuteReturn

Spec == Init /\ [][Next]_vars

\* the pipeline on the one-statement programs
InitExpr ==
    /\ code \in ExprSources
    /\ instructions = <<>>
    /\ pc = "tokenize"
    /\ Fresh

SpecExpr == InitExpr /\ [][Next]_vars

----------------------------------------------------------------------------
(* tokenize on a fresh Lexer, handed any text *)

InitLex ==
    /\ code \in RawSources
    /\ instructions = <<>>
    /\ pc = "tokenize"
    /\ Fresh

NextLex == Tokenize

SpecLex == InitLex /\ [][NextLex]_vars

----------------------------------------------------------------------------
(* execute on a fresh VirtualMachine, handed any tape *)

InitVM ==
    /\ code = <<>>
    /\ instructions \in Tapes
    /\ pc = "execute"
    /\ Fresh

NextVM ==
    \/ ExecuteCall
    \/ ExecuteStep
    \/ ExecuteReturn

SpecVM == InitVM /\ [][NextVM]_vars

----------------------------------------------------------------------------
(* execute on a fresh VirtualMachine, run to its end: the for loop is a    *)
(* blocking loop, so the step that can be taken is taken                   *)

\* longest tape run to its end
MaxRunLen == 4

RunInstrs == {Instr(PUSH, PyInt(2)), Instr(PUSH, PyInt(4)), Instr(OP, PyStr(<<"+">>)), PRINT}

RunTapes == SeqsUpTo(RunInstrs, MaxRunLen)

InitRun ==
    /\ code = <<>>
    /\ instructions \in RunTapes
    /\ pc = "execute"
    /\ Fresh

SpecRun == InitRun /\ [][NextVM]_vars /\ WF_vars(NextVM)

----------------------------------------------------------------------------
(* One Lexer, one CodeGenerator and one VirtualMachine, each constructed   *)
(* once and then called up to MaxCalls times in all.                       *)

InitReuse ==
    /\ code = <<>>
    /\ instructions = <<>>
    /\ pc = "idle"
    /\ Fresh

\* lexer.tokenize(text), to its return or its exception
CallTokenize ==
    /\ calls < MaxCalls
    /\ \E text \in ReuseSources :
         LET r == tokenize(lexer_tokens, text) IN
         /\ code' = text
         /\ lexer_tokens' = r.tokens
         /\ exc' = r.exc
         /\ IF r.exc = ""
            THEN tokens' = r.tokens /\ pc' = "tokenize_returned"
            ELSE tokens' = <<>> /\ pc' = "tokenize_raised"
    /\ calls' = calls + 1
    /\ UNCHANGED <<pos, ast, cg_instructions, instructions, stack, variables,
                   output, ip>>

\* codegen.generate(tree), to its return or its exception
CallGenerate ==
    /\ calls < MaxCalls
    /\ \E text \in ReuseStmts :
         LET tree == AstOf(text)
             r == generate(cg_instructions, tree)
         IN
         /\ ast' = tree
         /\ cg_instructions' = r.instructions
         /\ exc' = r.exc
         /\ IF r.exc = ""
            THEN instructions' = r.instructions /\ pc' = "generate_returned"
            ELSE instructions' = <<>> /\ pc' = "generate_raised"
    /\ calls' = calls + 1
    /\ UNCHANGED <<code, lexer_tokens, tokens, pos, stack, variables, output, ip>>

\* vm.execute(tape), to its return or its exception
CallExecute ==
    /\ calls < MaxCalls
    /\ \E tape \in ReuseTapes :
         LET r == execute(VM(stack, variables, output, ""), tape) IN
         /\ instructions' = tape
         /\ stack' = r.stack
         /\ variables' = r.variables
         /\ output' = r.output
         /\ exc' = r.exc
         /\ pc' = IF r.exc = "" THEN "execute_returned" ELSE "execute_raised"
    /\ calls' = calls + 1
    /\ UNCHANGED <<code, lexer_tokens, tokens, pos, ast, cg_instructions, ip>>

NextReuse ==
    \/ CallTokenize
    \/ CallGenerate
    \/ CallExecute

SpecReuse == InitReuse /\ [][NextReuse]_vars

----------------------------------------------------------------------------
(* What the claims speak about *)

\* the opcode and the operand of an instruction text
Opcode(instruction) == Split(instruction)[1]

Operand(instruction) == Split(instruction)[2]

\* the run of the tape is under way or over
Executing == pc \in {"running", "execute_raised", "done"}

\* the instruction executed last (ip >= 1), which raised if pc = "execute_raised"
LastInstr == instructions[ip]

\* no ALLOC or STORE of the name among the first k instructions of the tape
NeverBound(name, k) ==
    \A j \in 1..k :
        ~(Opcode(instructions[j]) \in {ALLOC, STORE} /\ Operand(instructions[j]) = name)

\* C1: a LOAD of a name that no earlier ALLOC or STORE of the run bound ends
\* the run in an error and pushes nothing.
C1_LoadOfUnboundNameRaises ==
    (Executing /\ ip >= 1 /\ Opcode(LastInstr) = LOAD
        /\ NeverBound(Operand(LastInstr), ip - 1))
    => (pc = "execute_raised" /\ exc # "")

\* every LOAD executed so far was of a name an earlier ALLOC or STORE bound
LoadsAreOfBoundNames ==
    \A j \in 1..ip :
        Opcode(instructions[j]) = LOAD => ~NeverBound(Operand(instructions[j]), j - 1)

\* C2: an Uninitialized value is never printed: in a run whose loads are
\* all of allocated names, no line of the output is the text of None (the
\* PRINT of a variable that is allocated but not yet stored ends the run in
\* an error instead).
C2_UninitializedNeverPrinted ==
    (Executing /\ LoadsAreOfBoundNames)
    => \A k \in 1..Len(output) : output[k] # PyFormat(None)

\* C3: after the full execution of a program that lexes and parses the
\* operand stack is empty, and it is empty after the STORE or PRINT that
\* ends each statement.
C3_StackEmptyAtStatementEnd ==
    /\ pc = "done" => stack = <<>>
    /\ (pc \in {"running", "done"} /\ ip >= 1 /\ Opcode(LastInstr) \in {STORE, PRINT})
       => stack = <<>>

\* C3's case: a program of several statements, with a declaration and a
\* print of an operator expression, ran to its end
C3_Witness ==
    /\ pc = "done"
    /\ Len(ast) >= 3
    /\ \E i \in 1..Len(ast) : ast[i][1] = "var_decl"
    /\ \E i \in 1..Len(ast) : ast[i][1] = "print" /\ ast[i][2][1] = "bin_op"
    /\ stack = <<>>

\* the tokens are those of print t1 o1 t2 ... tn ; with every ti a number
FlatExpr(toks) ==
    /\ Len(toks) >= 4
    /\ Len(toks) % 2 = 0
    /\ toks[1] = <<"IDENTIFIER", KwPrint>>
    /\ \A k \in 2..(Len(toks) - 2) :
          toks[k][1] = (IF k % 2 = 0 THEN "NUMBER" ELSE "OPERATOR")
    /\ toks[Len(toks) - 1][1] = "SEMICOLON"
    /\ toks[Len(toks)][1] = "EOF"

\* the number of terms of such tokens; term i is toks[2i], operator i toks[2i + 1]
NumTerms(toks) == (Len(toks) - 2) \div 2

\* BinOp(o(n-1), ... BinOp(o1, t1, t2) ..., tn)
RECURSIVE LeftFold(_, _)
LeftFold(toks, n) ==
    IF n = 1 THEN toks[2]
    ELSE <<"bin_op", toks[2 * n - 1][2], LeftFold(toks, n - 1), toks[2 * n]>>

\* (...((t1 o1 t2) o2 t3) ... tn) for the operators + and *
RECURSIVE LeftValue(_, _)
LeftValue(toks, n) ==
    IF n = 1 THEN toks[2][2].num
    ELSE IF toks[2 * n - 1][2] = PyStr(<<"+">>)
         THEN LeftValue(toks, n - 1) + toks[2 * n][2].num
         ELSE LeftValue(toks, n - 1) * toks[2 * n][2].num

ParseReturned == pc \in {"generate", "execute", "running", "execute_raised", "done"}

\* print 2 + 3 * 4 ;
Src_2_plus_3_times_4 ==
    W_print \o <<" ", "2", " ", "+", " ", "3", " ", "*", " ", "4", " ", ";">>

\* C4: the expression t1 o1 t2 ... tn parses to the left fold
\* BinOp(o(n-1), ... BinOp(o1, t1, t2) ..., tn) whatever the operators are,
\* and its value is computed left to right; 2+3*4 prints 20.
C4_ExpressionFoldsLeft ==
    /\ (pc # "tokenize" /\ pc # "parse" /\ FlatExpr(tokens))
       => /\ ParseReturned
          /\ ast = <<<<"print", LeftFold(tokens, NumTerms(tokens))>>>>
    /\ (pc = "done" /\ FlatExpr(tokens))
       => output = <<IntStr(LeftValue(tokens, NumTerms(tokens)))>>
    /\ (pc = "done" /\ code = Src_2_plus_3_times_4)
       => output = <<<<"2", "0">>>>

\* C4's case: print 2 + 3 * 4 ; ran and printed 20
C4_Witness ==
    /\ pc = "done"
    /\ code = Src_2_plus_3_times_4
    /\ ast = <<<<"print", <<"bin_op", PyStr(<<"*">>),
                              <<"bin_op", PyStr(<<"+">>), <<"NUMBER", PyInt(2)>>,
                                                         <<"NUMBER", PyInt(3)>>>>,
                              <<"NUMBER", PyInt(4)>>>>>>>>
    /\ output = <<<<"2", "0">>>>

\* the program made of the one statement
OneStmt(text) == text \o <<"\n">>

\* the step executes an OP that does not raise
OpStep ==
    /\ pc = "running"
    /\ ip < Len(instructions)
    /\ Opcode(instructions[ip + 1]) = OP
    /\ pc' = "running"

\* what the examples print
C5_Examples ==
    /\ (pc = "done" /\ code = OneStmt(W_print \o <<"(", "4", "/", "2", ")", ";">>))
       => output = <<<<"2", ".", "0">>>>
    /\ (pc = "done" /\ code = OneStmt(W_print \o <<"(", "5", "/", "2", ")", ";">>))
       => output = <<<<"2", ".", "5">>>>
    /\ (pc = "done" /\ code = OneStmt(W_print \o <<"(", "5", "-", "2", ")", ";">>))
       => output = <<<<"3">>>>

\* C5: an OP / that pushes a result pushes a float, the exact quotient,
\* also when the division is even; OP + - * of two ints push an int;
\* print(4/2); prints 2.0, print(5/2); prints 2.5 and print(5-2); prints 3.
C5_DivisionPushesFloat ==
    /\ []C5_Examples
    /\ [][OpStep =>
            LET operator == Operand(instructions[ip + 1])
                right == Top(stack)
                left == Top(Pop(stack))
                result == Top(stack')
            IN  /\ operator = <<"/">> =>
                      /\ result.kind = "float"
                      /\ result.num * left.den * right.num
                           = result.den * left.num * right.den
                /\ (operator \in {<<"+">>, <<"-">>, <<"*">>}
                      /\ left.kind = "int" /\ right.kind = "int")
                   => result.kind = "int"]_vars

\* C5's case: an even division was executed and its result printed
C5_Witness ==
    /\ pc = "done"
    /\ \E k \in 1..Len(instructions) : instructions[k] = Instr(OP, PyStr(<<"/">>))
    /\ \E k \in 1..Len(output) : output[k] = <<"2", ".", "0">>

\* the index of the last declaration of the name among the first k
\* statements of the AST, 0 when there is none
RECURSIVE LastDecl(_, _)
LastDecl(name, k) ==
    IF k = 0 THEN 0
    ELSE IF ast[k][1] = "var_decl" /\ ast[k][2] = name THEN k
    ELSE LastDecl(name, k - 1)

\* C6: an ALLOC leaves its name bound to None, whatever was stored before;
\* and when a program ends with print n; the line it prints is the value of
\* the most recent var n = <number>; before it.
C6_RedeclarationOverrides ==
    /\ (pc \in {"running", "done"} /\ ip >= 1 /\ Opcode(LastInstr) = ALLOC)
       => /\ Operand(LastInstr) \in DOMAIN variables
          /\ variables[Operand(LastInstr)] = None
    /\ (pc = "done" /\ ast # <<>> /\ ast[Len(ast)][1] = "print"
          /\ ast[Len(ast)][2][1] = "IDENTIFIER")
       => LET d == LastDecl(ast[Len(ast)][2][2], Len(ast) - 1) IN
          (d > 0 /\ ast[d][3][1] = "NUMBER")
          => output[Len(output)] = PyFormat(ast[d][3][2])

\* var x = 10; var x = 20; print x;
Src_redeclare ==
    Join(<<W_var \o <<" ", "x", " ", "=", " ", "1", "0", ";">>,
           W_var \o <<" ", "x", " ", "=", " ", "2", "0", ";">>,
           W_print \o <<" ", "x", ";">>>>, <<"\n">>)

\* C6's case: var x = 10; var x = 20; print x; ran and printed 20 alone
C6_Witness ==
    /\ pc = "done"
    /\ code = Src_redeclare
    /\ output = <<<<"2", "0">>>>

\* C7: a call of execute behaves as the same call on a fresh machine: it
\* ends with the stack, the variables and the outcome that executing the
\* tape alone ends with.
C7_ExecuteStartsFresh ==
    pc \in {"execute_returned", "execute_raised"}
    => LET alone == execute(VM(<<>>, EmptyDict, <<>>, ""), instructions) IN
       /\ stack = alone.stack
       /\ variables = alone.variables
       /\ exc = alone.exc

\* C8: tokenize returns the tokens of its own source, with one EOF, the
\* last element; generate returns the instructions of its own AST.
C8_CallsArePure ==
    /\ pc = "tokenize_returned"
       => /\ tokens = tokenize(<<>>, code).tokens
          /\ Cardinality({k \in 1..Len(tokens) : tokens[k][1] = "EOF"}) = 1
          /\ tokens[Len(tokens)][1] = "EOF"
    /\ pc = "generate_returned"
       => instructions = generate(<<>>, ast).instructions

\* the characters the claim lets a source be built from
ClaimChars ==
    AsciiDigits \cup AsciiLetters
    \cup {"_", "=", ";", "+", "-", "*", "/", "(", ")", " ", "\t", "\n"}

\* the text without its spaces, tabs and newlines
RECURSIVE Unspaced(_)
Unspaced(text) ==
    IF text = <<>> THEN <<>>
    ELSE IF Head(text) \in {" ", "\t", "\n"} THEN Unspaced(Tail(text))
    ELSE <<Head(text)>> \o Unspaced(Tail(text))

\* the texts of the first n tokens, one after the other
RECURSIVE TokenTexts(_, _)
TokenTexts(toks, n) ==
    IF n = 0 THEN <<>> ELSE TokenTexts(toks, n - 1) \o PyFormat(toks[n][2])

\* C9: a source built from the claim's characters tokenizes to its lexemes
\* in source order, without its whitespace, ended by (EOF, None); a source
\* with any other character ends tokenize in an error.
C9_TokenizeAcceptsExactlyTheAlphabet ==
    pc # "tokenize"
    => IF \A k \in 1..Len(code) : code[k] \in ClaimChars
       THEN /\ pc = "parse"
            /\ tokens[Len(tokens)] = <<"EOF", None>>
            /\ \A k \in 1..(Len(tokens) - 1) : tokens[k][1] # "EOF"
            /\ TokenTexts(tokens, Len(tokens) - 1) = Unspaced(code)
       ELSE pc = "tokenize_raised" /\ exc = "SyntaxError"

\* C10: parse returns only when every statement ended with its semicolon:
\* the AST has as many statements as the tokens have semicolons and the
\* token before EOF is a semicolon; otherwise parse raises SyntaxError.
C10_MissingSemicolonRaises ==
    /\ ParseReturned
       => /\ Cardinality({k \in 1..Len(tokens) : tokens[k][1] = "SEMICOLON"}) = Len(ast)
          /\ Len(tokens) >= 2 => tokens[Len(tokens) - 1][1] = "SEMICOLON"
    /\ pc = "parse_raised" => exc = "SyntaxError"

\* C10's case: a program whose last statement has no semicolon before EOF,
\* after a statement that has one, ended parse in SyntaxError
C10_Witness ==
    /\ pc = "parse_raised"
    /\ exc = "SyntaxError"
    /\ ast = <<>>
    /\ Cardinality({k \in 1..Len(tokens) : tokens[k][1] = "SEMICOLON"}) >= 1
    /\ tokens[Len(tokens) - 1][1] # "SEMICOLON"
    /\ pos = Len(tokens) - 1

\* the step executes the next instruction of the tape
StepOf(opcode) ==
    /\ pc = "running"
    /\ ip < Len(instructions)
    /\ Opcode(instructions[ip + 1]) = opcode

\* C11: a PRINT or STORE on an empty stack and an OP on fewer than two
\* values end the run in the stack-underflow error (IndexError); the step
\* prints nothing, binds nothing and pushes nothing.
C11_UnderflowRaises ==
    [][(((StepOf(PRINT) \/ StepOf(STORE)) /\ stack = <<>>)
          \/ (StepOf(OP) /\ Len(stack) < 2))
       => /\ pc' = "execute_raised"
          /\ exc' = "IndexError"
          /\ output' = output
          /\ variables' = variables
          /\ Len(stack') <= Len(stack)
          /\ \A k \in 1..Len(stack') : stack'[k] = stack[k]]_vars

\* C11's case: an OP found a single value on the stack and the run ended
\* in IndexError with nothing printed and nothing bound
C11_Witness ==
    /\ pc = "execute_raised"
    /\ exc = "IndexError"
    /\ ip = 2
    /\ Opcode(instructions[1]) = PUSH
    /\ Opcode(instructions[2]) = OP
    /\ output = <<>>
    /\ DOMAIN variables = {}

\* C12: a STORE with a value on the stack succeeds whether or not its name
\* was allocated: it pops the top value and binds the name to it, and a
\* LOAD of a bound name pushes the value bound.
C12_StoreBindsWithoutAlloc ==
    /\ [][(StepOf(STORE) /\ stack # <<>>)
          => /\ pc' = "running"
             /\ stack' = Pop(stack)
             /\ Operand(instructions[ip + 1]) \in DOMAIN variables'
             /\ variables'[Operand(instructions[ip + 1])] = Top(stack)]_vars
    /\ [][(StepOf(LOAD) /\ Operand(instructions[ip + 1]) \in DOMAIN variables)
          => /\ pc' = "running"
             /\ stack' = Append(stack, variables[Operand(instructions[ip + 1])])]_vars

\* C12's case: PUSH 2, STORE x, LOAD x with no ALLOC x ran and left the 2
\* on the stack
C12_Witness ==
    /\ pc = "running"
    /\ ip = 3
    /\ instructions = <<Instr(PUSH, PyInt(2)), Instr(STORE, PyStr(<<"x">>)),
                        Instr(LOAD, PyStr(<<"x">>))>>
    /\ stack = <<PyInt(2)>>
    /\ variables[<<"x">>] = PyInt(2)

\* generate returned: instructions holds what it emitted
GenerateReturned == pc \in {"execute", "running", "execute_raised", "done"}

\* the post-order code of an expression: NumberLiteral, Identifier, BinOp
RECURSIVE PostOrder(_)
PostOrder(e) ==
    CASE e[1] = "NUMBER" -> << <<PUSH, e[2]>> >>
      [] e[1] = "IDENTIFIER" -> << <<LOAD, e[2]>> >>
      [] e[1] = "bin_op" -> PostOrder(e[3]) \o PostOrder(e[4]) \o << <<OP, e[2]>> >>

\* the code of a statement: VarDecl, Print
StatementCode(st) ==
    CASE st[1] = "var_decl" ->
           << <<ALLOC, st[2]>> >> \o PostOrder(st[3]) \o << <<STORE, st[2]>> >>
      [] st[1] = "print" -> PostOrder(st[2]) \o << <<PRINT>> >>

\* the code of a program: the code of its statements in order
RECURSIVE ProgramCode(_, _)
ProgramCode(tree, i) ==
    IF i > Len(tree) THEN <<>>
    ELSE StatementCode(tree[i]) \o ProgramCode(tree, i + 1)

\* the text of an instruction: the opcode, and after one space the operand
InstrText(ins) ==
    IF Len(ins) = 1 THEN ins[1] ELSE ins[1] \o <<" ">> \o PyFormat(ins[2])

\* C13: generate emits exactly the post-order code of the AST, statement
\* after statement, with nothing added and nothing left out.
C13_GenerateEmitsPostOrder ==
    GenerateReturned =>
        LET want == ProgramCode(ast, 1) IN
        /\ Len(instructions) = Len(want)
        /\ \A k \in 1..Len(want) : instructions[k] = InstrText(want[k])

\* C13's case: the code of var x = 10; print(x+2);
C13_Witness ==
    /\ GenerateReturned
    /\ instructions = <<Instr(ALLOC, PyStr(<<"x">>)), Instr(PUSH, PyInt(10)),
                        Instr(STORE, PyStr(<<"x">>)), Instr(LOAD, PyStr(<<"x">>)),
                        Instr(PUSH, PyInt(2)), Instr(OP, PyStr(<<"+">>)), PRINT>>

----------------------------------------------------------------------------
(* generate on a fresh CodeGenerator, handed any tree: statements and
   expressions of the parser's five shapes and of shapes it never builds *)

\* an expression node and a statement node of no shape generate knows
UnknownExpr == <<"string", PyStr(<<"s">>)>>
UnknownStmtTag == "while"

GenLeaves ==
    {<<"NUMBER", PyInt(2)>>, <<"IDENTIFIER", PyStr(<<"x">>)>>, UnknownExpr}

GenExprs ==
    GenLeaves \cup {<<"bin_op", PyStr(<<"+">>), l, r>> : l \in GenLeaves, r \in GenLeaves}

GenStmts ==
    {<<"var_decl", PyStr(<<"x">>), e>> : e \in GenExprs}
    \cup {<<"print", e>> : e \in GenExprs}
    \cup {<<UnknownStmtTag, e>> : e \in GenExprs}

GenTrees == {<<st>> : st \in GenStmts} \cup {<<st, nd>> : st \in GenStmts, nd \in GenStmts}

InitGen ==
    /\ code = <<>>
    /\ lexer_tokens = <<>>
    /\ tokens = <<>>
    /\ pos = 0
    /\ ast \in GenTrees
    /\ cg_instructions = <<>>
    /\ instructions = <<>>
    /\ stack = <<>>
    /\ variables = EmptyDict
    /\ output = <<>>
    /\ ip = 0
    /\ exc = ""
    /\ calls = 0
    /\ pc = "generate"

NextGen == Generate

SpecGen == InitGen /\ [][NextGen]_vars

\* the expression holds a node that is none of NumberLiteral, Identifier, BinOp
RECURSIVE ExprHasUnknown(_)
ExprHasUnknown(e) ==
    IF e[1] = "bin_op" THEN ExprHasUnknown(e[3]) \/ ExprHasUnknown(e[4])
    ELSE e[1] \notin {"NUMBER", "IDENTIFIER"}

\* the statement is none of VarDecl, Print, or its expression holds an
\* unknown node
StmtHasUnknown(st) ==
    IF st[1] = "var_decl" THEN ExprHasUnknown(st[3])
    ELSE IF st[1] = "print" THEN ExprHasUnknown(st[2])
    ELSE TRUE

\* C14: generate ends in an error for every AST holding a node whose tag
\* is none of the five, at statement position and at any expression
\* position; it never returns a sequence with that node's code missing.
C14_UnknownTagRaises ==
    (pc # "generate" /\ \E i \in 1..Len(ast) : StmtHasUnknown(ast[i]))
        => pc = "generate_raised" /\ exc = "RuntimeError"

\* the tokens are those of print ( ... ) ;
Wrapped(toks) ==
    /\ Len(toks) >= 6
    /\ toks[1] = <<"IDENTIFIER", KwPrint>>
    /\ toks[2][1] = "LPAREN"
    /\ toks[Len(toks) - 2][1] = "RPAREN"
    /\ toks[Len(toks) - 1][1] = "SEMICOLON"
    /\ toks[Len(toks)][1] = "EOF"

\* the tokens without the parenthesis after print and the one before the
\* semicolon
Unwrapped(toks) ==
    <<toks[1]>> \o SubSeq(toks, 3, Len(toks) - 3)
                \o SubSeq(toks, Len(toks) - 1, Len(toks))

\* parse has ended
ParseEnded == pc \notin {"tokenize", "tokenize_raised", "parse"}

\* C15: when e is a well-formed expression, print(e); parses to the tree
\* print e; parses to, so both generate the same instructions and print
\* the same.
C15_PrintParenthesesAreGrouping ==
    (ParseEnded /\ Wrapped(tokens) /\ parse(Unwrapped(tokens)).exc = "")
        => LET tree == parse(Unwrapped(tokens)).val IN
           /\ ParseReturned
           /\ ast = tree
           /\ GenerateReturned => instructions = generate(<<>>, tree).instructions
           /\ pc = "done" =>
                  output = execute(VM(<<>>, EmptyDict, <<>>, ""),
                                   generate(<<>>, tree).instructions).output

\* C15's case: print ( 2 + 3 ) ; ran and printed the 5 of print 2 + 3 ;
C15_Witness ==
    /\ pc = "done"
    /\ code = W_print \o <<" ", "(", " ", "2", " ", "+", " ", "3", " ", ")", " ", ";">>
    /\ ast = <<<<"print", <<"bin_op", PyStr(<<"+">>), <<"NUMBER", PyInt(2)>>,
                                                     <<"NUMBER", PyInt(3)>>>>>>>>
    /\ output = << <<"5">> >>

\* an exception left tokenize, parse or generate
RaisedBeforeExecution == pc \in {"tokenize_raised", "parse_raised", "generate_raised"}

\* C16: an error ends the run where it is detected.  After an exception no
\* step is taken, so no later instruction runs and no further line is
\* written; an exception of tokenize, parse or generate comes before any
\* instruction has run, so nothing at all has been printed.
C16_FirstErrorAborts ==
    /\ [](exc # "" => (RaisedBeforeExecution \/ pc = "execute_raised"))
    /\ [](RaisedBeforeExecution =>
              /\ output = <<>>
              /\ stack = <<>>
              /\ DOMAIN variables = {}
              /\ ip = 0)
    /\ [][exc = ""]_vars

\* C16's case: the second statement of three raised after the first had
\* printed 2.0, and the PRINT instructions after it were never run
C16_Witness ==
    /\ pc = "execute_raised"
    /\ exc = "TypeError"
    /\ output = << <<"2", ".", "0">> >>
    /\ \E k \in (ip + 1)..Len(instructions) : instructions[k] = PRINT

\* the number of PRINT instructions among the first n of the tape
RECURSIVE NumPrints(_, _)
NumPrints(tape, n) ==
    IF n = 0 THEN 0
    ELSE NumPrints(tape, n - 1) + (IF Opcode(tape[n]) = PRINT THEN 1 ELSE 0)

\* the run of execute is over
ExecuteEnded == pc \in {"done", "execute_raised"}

\* C17: execute runs the instructions one by one in index order and ends.
\* A step runs instruction ip and moves to ip + 1, the call returns only
\* when all n instructions have run, every run of execute ends, each PRINT
\* appends one line after those already written and no other instruction
\* writes any; so the lines are in the order of the PRINT instructions and
\* as many as them.
C17_ExecuteIsSequential ==
    /\ [][pc = "running" =>
             \/ ip < Len(instructions) /\ ip' = ip + 1 /\ instructions' = instructions
             \/ ip = Len(instructions) /\ ip' = ip /\ pc' = "done" /\ output' = output]_vars
    /\ [][(StepOf(PRINT) /\ pc' = "running") =>
             output' = Append(output, PyFormat(Top(stack)))]_vars
    /\ [][(pc = "running" /\ ip < Len(instructions) /\ ~StepOf(PRINT)) =>
             output' = output]_vars
    /\ [](pc \in {"running", "done"} => Len(output) = NumPrints(instructions, ip))
    /\ [](pc = "done" => ip = Len(instructions))
    /\ (pc = "execute") ~> ExecuteEnded

\* C17's case: PUSH 2, PRINT, PUSH 4, PRINT ran to the end and wrote 2,
\* then 4
C17_Witness ==
    /\ pc = "done"
    /\ ip = 4
    /\ NumPrints(instructions, Len(instructions)) = 2
    /\ output = << <<"2">>, <<"4">> >>

\* C18: code generated from a parsed AST never underflows on a fresh
\* machine: an OP is run with at least two values on the stack, a STORE
\* and a PRINT with exactly one.
C18_GeneratedCodeNeverUnderflows ==
    /\ StepOf(OP) => Len(stack) >= 2
    /\ (StepOf(STORE) \/ StepOf(PRINT)) => Len(stack) = 1
    /\ exc # "IndexError"

\* C18's case: the PRINT of print 2+3*4; is about to run with the one value
\* 20 on the stack, both OPs having run
C18_Witness ==
    /\ StepOf(PRINT)
    /\ ip = 5
    /\ Opcode(instructions[3]) = OP
    /\ Opcode(instructions[5]) = OP
    /\ stack = <<PyInt(20)>>

\* C19: the parser never moves past EOF.  pos only grows, so where parse
\* ends bounds every position it looked at: parse returns with pos on the
\* EOF token, the last one, or raises SyntaxError with pos on a token of
\* the sequence; it never raises IndexError, the out-of-range access.
C19_ParserStaysBeforeEOF ==
    /\ ParseEnded => /\ 0 <= pos
                     /\ pos < Len(tokens)
                     /\ tokens[Len(tokens)][1] = "EOF"
                     /\ \A k \in 1..(Len(tokens) - 1) : tokens[k][1] # "EOF"
    /\ ParseReturned => pos = Len(tokens) - 1
    /\ pc = "parse_raised" => exc = "SyntaxError"

\* C19's case: print x without its semicolon ran the parser into EOF,
\* where it raised SyntaxError with pos on EOF
C19_Witness ==
    /\ pc = "parse_raised"
    /\ exc = "SyntaxError"
    /\ pos = Len(tokens) - 1
    /\ tokens[pos + 1][1] = "EOF"
    /\ pos >= 2

\* the instruction text splits back into the opcode and the operand of ins
Decodes(text, ins) ==
    LET parts == Split(text) IN
    /\ Len(parts) = Len(ins)
    /\ parts[1] = ins[1]
    /\ Len(ins) = 2 =>
           IF ins[1] = PUSH
           THEN IsIntText(parts[2]) /\ PyInt(IntOfText(parts[2])) = ins[2]
           ELSE PyStr(parts[2]) = ins[2]

\* C20: every instruction generate emits from a parsed AST splits at
\* whitespace into exactly its opcode and its operand, and the machine
\* acts on the operand of the structured instruction: a PUSH that ran left
\* the literal on the stack, a STORE that ran bound the name.
C20_InstructionTextRoundTrips ==
    GenerateReturned =>
        LET want == ProgramCode(ast, 1) IN
        /\ Len(instructions) = Len(want)
        /\ \A k \in 1..Len(want) : Decodes(instructions[k], want[k])
        /\ (pc = "running" /\ ip >= 1 /\ want[ip][1] = PUSH)
               => stack # <<>> /\ Top(stack) = want[ip][2]
        /\ (pc = "running" /\ ip >= 1 /\ want[ip][1] = STORE)
               => want[ip][2].text \in DOMAIN variables

\* C20's case: the PUSH 10 of var x = 10; ran and left the int 10 on the
\* stack
C20_Witness ==
    /\ pc = "running"
    /\ ip = 2
    /\ instructions[2] = <<"P", "U", "S", "H", " ", "1", "0">>
    /\ ast[1] = <<"var_decl", PyStr(<<"x">>), <<"NUMBER", PyInt(10)>>>>
    /\ stack = <<PyInt(10)>>

====
